---- MODULE Spec2Model ----
(***************************************************************************)
(* Model of the danmaku analysis pipeline of missevan_analyzer:            *)
(*   src/missevan_analyzer/src/parser.py    parse_danmaku_xml,             *)
(*                                          identify_staff                 *)
(*   src/missevan_analyzer/src/analyzer.py  get_dialogues_by_ids,          *)
(*                                          _get_lines_for_character,      *)
(*                                          extract_mainchar_speech,       *)
(*                                          count_mentions_in_content,     *)
(*                                          analyze_character_mentions     *)
(*                                                                         *)
(* A Python str is a sequence of one-character tokens.  The module text    *)
(* is ASCII, so every character of the source that lies outside Latin-1    *)
(* is written as a named token:                                            *)
(*   "jia" "yi" "bing" "xiao" "ming" "ge" "hao"  CJK letters               *)
(*   "colon"                                     U+FF1A full-width colon   *)
(*   "stop" "bang" "ques" "semi"                 U+3002 U+FF01 U+FF1F      *)
(*                                               U+FF1B                    *)
(* and the two ASCII characters the code looks at are "/" and " ".         *)
(* Indices into a str are 0-based as in the source; s[k+1] is character k. *)
(***************************************************************************)
EXTENDS Integers, Sequences, FiniteSets, Bags, TLC

VARIABLES
    pc,                    \* position of the modelled call
    episodes,              \* analyze_character_mentions: episodes
    main_character,        \* main_character / main_char
    target_characters,     \* registry: sequence of [char, nicknames]
    exact_match,           \* exact_match flag
    i,                     \* number of loop iterations completed
    total_mention_counts,  \* bag of <<char, nickname>>
    per_episode_results,   \* sequence of episode result records
    progress,              \* messages given to progress_callback / print
    fetched,               \* what fetch_danmaku_xml returned, per request
    content,               \* text handed to the line-level functions
    actual_content,        \* result of extract_mainchar_speech
    all_matches,           \* count_mentions_in_content: sorted hit list
    non_overlapping,       \* count_mentions_in_content: kept hits
    counts,                \* count_mentions_in_content: returned mapping
    comments,              \* identify_staff: danmaku_list
    known_names,           \* identify_staff: character_names
    staff_threshold,       \* identify_staff: threshold
    staff_result,          \* identify_staff: returned set
    candidates,            \* _get_lines_for_character: all_dialogues
    character_lines,       \* _get_lines_for_character: returned list
    seconds,               \* format_time: seconds
    formatted              \* format_time: returned string

vars == <<pc, episodes, main_character, target_characters, exact_match, i,
          total_mention_counts, per_episode_results, progress, fetched,
          content, actual_content, all_matches, non_overlapping, counts,
          comments, known_names, staff_threshold, staff_result,
          candidates, character_lines, seconds, formatted>>

\* variables of the calls modelled on their own: identify_staff,
\* _get_lines_for_character, format_time
callVars == <<comments, known_names, staff_threshold, staff_result,
              candidates, character_lines, seconds, formatted>>

-----------------------------------------------------------------------------
(* Characters *)

FWColon == "colon"
Slash == "/"
Space == " "

\* the character class [。！？；] of re.split in extract_mainchar_speech
Terminators == {"stop", "bang", "ques", "semi"}

\* characters in \x00-\xff
Latin1 == {Slash, Space}

\* str.strip() removes these
Whitespace == {Space}

\* the value None; "None" is not a character of any text
None == <<"None">>

-----------------------------------------------------------------------------
(* Python str operations *)

\* s[a:b] with 0 <= a, b
Slice(s, a, b) == IF b <= a THEN <<>> ELSE SubSeq(s, a + 1, IF b > Len(s) THEN Len(s) ELSE b)

\* "p in s" where the code has s.startswith(p)
HasSubstring(s, p) == \E k \in 0..(Len(s) - Len(p)) : SubSeq(s, k + 1, k + Len(p)) = p

\* s.startswith(p)
StartsWith(s, p) == Len(p) <= Len(s) /\ SubSeq(s, 1, Len(p)) = p

\* s.find(p, start): least k >= start with s[k:k+len(p)] = p, else -1
RECURSIVE Find(_, _, _)
Find(s, p, start) ==
    IF start + Len(p) > Len(s) THEN -1
    ELSE IF SubSeq(s, start + 1, start + Len(p)) = p THEN start
    ELSE Find(s, p, start + 1)

\* p in s
Contains(s, p) == Find(s, p, 0) /= -1

\* s.split(sep) for a one-character sep out of seps; re.split(r'[seps]', s)
RECURSIVE SplitFrom(_, _, _, _)
SplitFrom(s, seps, k, piece) ==
    IF k > Len(s) THEN <<piece>>
    ELSE IF s[k] \in seps THEN <<piece>> \o SplitFrom(s, seps, k + 1, <<>>)
    ELSE SplitFrom(s, seps, k + 1, Append(piece, s[k]))

Split(s, seps) == SplitFrom(s, seps, 1, <<>>)

\* s.split(sep, 1) for s that contains sep: <<before first sep, rest>>
SplitOnce(s, sep) ==
    LET k == Find(s, <<sep>>, 0)
    IN  IF k = -1 THEN <<s>> ELSE <<Slice(s, 0, k), Slice(s, k + 1, Len(s))>>

\* s.strip()
RECURSIVE LStrip(_)
LStrip(s) == IF s /= <<>> /\ Head(s) \in Whitespace THEN LStrip(Tail(s)) ELSE s

RECURSIVE RStrip(_)
RStrip(s) ==
    IF s /= <<>> /\ s[Len(s)] \in Whitespace THEN RStrip(SubSeq(s, 1, Len(s) - 1)) ELSE s

Strip(s) == RStrip(LStrip(s))

\* list.index(x): 0-based position of the first x in the list l (x in l)
ListIndex(l, x) == (CHOOSE k \in 1..Len(l) : l[k] = x /\ \A j \in 1..(k - 1) : l[j] /= x) - 1

InList(l, x) == \E k \in 1..Len(l) : l[k] = x

-----------------------------------------------------------------------------
(* analyzer.py: extract_mainchar_speech *)

\* the first segment, whether it contains the name or not
FirstSegment(segments, main_char) ==
    IF segments = <<>> THEN None ELSE Head(segments)

\* first segment of re.split(r'[。！？；]', content_part) containing main_char
RECURSIVE FirstSegmentWith(_, _)
FirstSegmentWith(segments, main_char) ==
    IF segments = <<>> THEN None
    ELSE IF Contains(Head(segments), main_char) THEN Head(segments)
    ELSE FirstSegmentWith(Tail(segments), main_char)

\* only the startswith test of the first "if"
HasNameColonPrefixOnly(c, main_char) == StartsWith(c, main_char \o <<FWColon>>)

\* content.startswith(f"{main_char}：") or f"{main_char}：" in content
HasNameColon(c, main_char) ==
    StartsWith(c, main_char \o <<FWColon>>) \/ Contains(c, main_char \o <<FWColon>>)

\* the role names left as split, without strip()
RolesUnstripped(role_part) == Split(role_part, {Slash})

\* [r.strip() for r in role_part.split('/')]
Roles(role_part) ==
    LET rawroles == Split(role_part, {Slash})
    IN  [k \in 1..Len(rawroles) |-> Strip(rawroles[k])]

extract_mainchar_speech(c, main_char) ==
    IF HasNameColon(c, main_char) THEN c
    ELSE IF Contains(c, <<Slash>>) /\ Contains(c, <<FWColon>>) THEN
        LET parts == SplitOnce(c, FWColon)
            role_part == parts[1]
            content_part == parts[2]
            roles == Roles(role_part)
        IN  IF ~InList(roles, main_char) THEN None
            ELSE
                LET char_index == ListIndex(roles, main_char)
                    content_parts == Split(content_part, {Slash})
                    segment == FirstSegmentWith(Split(content_part, Terminators), main_char)
                IN  IF Contains(content_part, <<Slash>>) /\ Len(content_parts) = Len(roles)
                    THEN Strip(content_parts[char_index + 1])
                    ELSE IF segment /= None THEN Strip(segment)
                    ELSE Strip(content_part)
    ELSE c

-----------------------------------------------------------------------------
(* analyzer.py: count_mentions_in_content *)

\* A registry (target_characters) is a sequence of [char, nicknames] in dict
\* iteration order; a hit is the tuple (char, nickname, start, end).
Hit(char, nickname, start) ==
    [char |-> char, nickname |-> nickname, start |-> start, end |-> start + Len(nickname)]

\* re.search where the code has re.finditer: only the first match is found
FindFirstOnly(text, char, nickname, from) ==
    LET pos == Find(text, nickname, from)
    IN  IF pos = -1 THEN <<>> ELSE <<Hit(char, nickname, pos)>>

\* re.finditer(re.escape(nickname), text): the scan resumes at the end of
\* each match (one past it after an empty match)
RECURSIVE FindIter(_, _, _, _)
FindIter(text, char, nickname, from) ==
    LET pos == Find(text, nickname, from)
    IN  IF pos = -1 THEN <<>>
        ELSE <<Hit(char, nickname, pos)>>
             \o FindIter(text, char, nickname, IF nickname = <<>> THEN pos + 1 ELSE pos + Len(nickname))

\* the while loop around text.find(nickname, start): start = pos + 1
RECURSIVE FindLoop(_, _, _, _)
FindLoop(text, char, nickname, start) ==
    LET pos == Find(text, nickname, start)
    IN  IF pos = -1 THEN <<>>
        ELSE <<Hit(char, nickname, pos)>> \o FindLoop(text, char, nickname, pos + 1)

NicknameMatches(text, char, nickname, exact) ==
    IF exact THEN FindIter(text, char, nickname, 0) ELSE FindLoop(text, char, nickname, 0)

RECURSIVE NicknamesMatches(_, _, _, _)
NicknamesMatches(text, char, nicknames, exact) ==
    IF nicknames = <<>> THEN <<>>
    ELSE NicknameMatches(text, char, Head(nicknames), exact)
         \o NicknamesMatches(text, char, Tail(nicknames), exact)

\* the two nested for loops: hits in discovery order
RECURSIVE CollectMatches(_, _, _)
CollectMatches(text, registry, exact) ==
    IF registry = <<>> THEN <<>>
    ELSE NicknamesMatches(text, Head(registry).char, Head(registry).nicknames, exact)
         \o CollectMatches(text, Tail(registry), exact)

\* list.sort(key=lambda x: x[2]) is stable: an element goes after every
\* element already placed whose start is not greater
RECURSIVE InsertByStart(_, _)
InsertByStart(sorted, h) ==
    IF sorted = <<>> THEN <<h>>
    ELSE IF sorted[Len(sorted)].start <= h.start THEN Append(sorted, h)
    ELSE Append(InsertByStart(SubSeq(sorted, 1, Len(sorted) - 1), h), sorted[Len(sorted)])

\* the sort left out: hits stay in discovery order
Unsorted(l) == l

\* sort by start, then longest first, where the code sorts by start alone
RECURSIVE InsertLongestFirst(_, _)
InsertLongestFirst(sorted, h) ==
    IF sorted = <<>> THEN <<h>>
    ELSE LET last == sorted[Len(sorted)]
         IN  IF last.start < h.start \/ (last.start = h.start /\ last.end >= h.end)
             THEN Append(sorted, h)
             ELSE Append(InsertLongestFirst(SubSeq(sorted, 1, Len(sorted) - 1), h), last)

RECURSIVE SortLeftmostLongest(_)
SortLeftmostLongest(l) ==
    IF l = <<>> THEN <<>>
    ELSE InsertLongestFirst(SortLeftmostLongest(SubSeq(l, 1, Len(l) - 1)), l[Len(l)])

RECURSIVE SortByStart(_)
SortByStart(l) ==
    IF l = <<>> THEN <<>>
    ELSE InsertByStart(SortByStart(SubSeq(l, 1, Len(l) - 1)), l[Len(l)])

\* "start > last_end" where the code has "start >= last_end"
RECURSIVE KeepFromStrict(_, _)
KeepFromStrict(matches, last_end) ==
    IF matches = <<>> THEN <<>>
    ELSE IF Head(matches).start > last_end
         THEN <<Head(matches)>> \o KeepFromStrict(Tail(matches), Head(matches).end)
         ELSE KeepFromStrict(Tail(matches), last_end)

\* the loop over all_matches with last_end
RECURSIVE KeepFrom(_, _)
KeepFrom(matches, last_end) ==
    IF matches = <<>> THEN <<>>
    ELSE IF Head(matches).start >= last_end
         THEN <<Head(matches)>> \o KeepFrom(Tail(matches), Head(matches).end)
         ELSE KeepFrom(Tail(matches), last_end)

NonOverlapping(matches) == KeepFrom(matches, -1)

\* counts[char][nickname] += 1 per kept hit; the nested mapping is the bag
\* of its <<char, nickname>> keys
RECURSIVE Tally(_)
Tally(kept) ==
    IF kept = <<>> THEN EmptyBag
    ELSE SetToBag({<<Head(kept).char, Head(kept).nickname>>}) (+) Tally(Tail(kept))

count_mentions_in_content(text, registry, exact) ==
    Tally(NonOverlapping(SortByStart(CollectMatches(text, registry, exact))))

-----------------------------------------------------------------------------
(* parser.py *)

\* What fetch_danmaku_xml returns: None, or a text.  A text is described by
\* what xml.etree makes of it: empty, not well-formed, or a root whose <d>
\* elements each carry the list p.split(',') and a text (None when the
\* element has none).
NoneXml == [present |-> FALSE, empty |-> FALSE, wellformed |-> FALSE, d |-> <<>>]
EmptyXml == [present |-> TRUE, empty |-> TRUE, wellformed |-> FALSE, d |-> <<>>]
BrokenXml == [present |-> TRUE, empty |-> FALSE, wellformed |-> FALSE, d |-> <<>>]
Xml(elements) == [present |-> TRUE, empty |-> FALSE, wellformed |-> TRUE, d |-> elements]

\* "xml_content is None" where the code has "not xml_content"
IsAbsent(xml) == ~xml.present

\* "not xml_content"
Falsy(xml) == ~xml.present \/ xml.empty

\* float(a) for the attribute strings used as timestamps; any other string
\* raises ValueError
Digits == <<"0", "1", "2", "3", "4", "5", "6", "7", "8", "9">>
IsFloat(a) == \E k \in 1..Len(Digits) : Digits[k] = a
Float(a) == (CHOOSE k \in 1..Len(Digits) : Digits[k] = a) - 1

Danmaku(timestamp, user_id, color, text) ==
    [timestamp |-> timestamp, user_id |-> user_id, color |-> color, content |-> text]

\* the loop over root.findall('d'); float() raising ValueError leaves the
\* function through no except clause
RECURSIVE ParseElements(_)
ParseElements(d) ==
    IF d = <<>> THEN [raised |-> FALSE, value |-> <<>>]
    ELSE LET p_attributes == Head(d).p
             text == IF Head(d).text = None THEN <<>> ELSE Head(d).text
             rest == ParseElements(Tail(d))
         IN  IF Len(p_attributes) >= 7
             THEN IF ~IsFloat(p_attributes[1]) THEN [raised |-> TRUE, value |-> <<>>]
                  ELSE IF rest.raised THEN rest
                  ELSE [raised |-> FALSE,
                        value |-> <<Danmaku(Float(p_attributes[1]), p_attributes[7],
                                            p_attributes[4], Strip(text))>> \o rest.value]
             ELSE rest

\* result [raised, value]: raised when an exception leaves the function
parse_danmaku_xml(xml_content) ==
    IF Falsy(xml_content) THEN [raised |-> FALSE, value |-> <<>>]
    ELSE IF ~xml_content.wellformed THEN [raised |-> FALSE, value |-> <<>>]
    ELSE ParseElements(xml_content.d)

\* re.compile(r"^([^\x00-\xff]+)：").match(text): a full-width colon preceded
\* by one or more characters, all outside Latin-1
IsDialogueForm(text) ==
    \E k \in 2..Len(text) : text[k] = FWColon /\ \A j \in 1..(k - 1) : text[j] \notin Latin1

\* counts[user_id] after the loop
DialogueCount(danmaku_list, user_id) ==
    Cardinality({k \in 1..Len(danmaku_list) :
                    danmaku_list[k].user_id = user_id /\ IsDialogueForm(danmaku_list[k].content)})

\* "count >= threshold" where the code has "count > threshold"
identify_staff_at_least(danmaku_list, character_names, threshold) ==
    {user_id \in {danmaku_list[k].user_id :
                     k \in {j \in 1..Len(danmaku_list) : IsDialogueForm(danmaku_list[j].content)}} :
        DialogueCount(danmaku_list, user_id) >= threshold}

\* counts has a key only for an author of at least one matching comment
identify_staff(danmaku_list, character_names, threshold) ==
    {user_id \in {danmaku_list[k].user_id :
                     k \in {j \in 1..Len(danmaku_list) : IsDialogueForm(danmaku_list[j].content)}} :
        DialogueCount(danmaku_list, user_id) > threshold}

\* default of identify_staff's threshold parameter
DefaultThreshold == 5

-----------------------------------------------------------------------------
(* analyzer.py: get_dialogues_by_ids, _get_lines_for_character *)

RECURSIVE InsertByTimestamp(_, _)
InsertByTimestamp(sorted, d) ==
    IF sorted = <<>> THEN <<d>>
    ELSE IF sorted[Len(sorted)].timestamp <= d.timestamp THEN Append(sorted, d)
    ELSE Append(InsertByTimestamp(SubSeq(sorted, 1, Len(sorted) - 1), d), sorted[Len(sorted)])

\* dialogues.sort(key=lambda d: d.timestamp), stable
RECURSIVE SortByTimestamp(_)
SortByTimestamp(l) ==
    IF l = <<>> THEN <<>>
    ELSE InsertByTimestamp(SortByTimestamp(SubSeq(l, 1, Len(l) - 1)), l[Len(l)])

get_dialogues_by_ids(danmaku_list, user_ids) ==
    SortByTimestamp(SelectSeq(danmaku_list, LAMBDA d : d.user_id \in user_ids))

\* only the colour of the first prefixed line is used, as the docstring says
_get_lines_for_first_colour(all_dialogues, character_name) ==
    LET key == character_name \o <<FWColon>>
        firsts == {j \in 1..Len(all_dialogues) : StartsWith(all_dialogues[j].content, key)}
        char_colors == {all_dialogues[k].color :
                           k \in {j \in firsts : \A f \in firsts : j <= f}}
    IN  IF char_colors /= {}
        THEN SelectSeq(all_dialogues, LAMBDA d : d.color \in char_colors)
        ELSE SelectSeq(all_dialogues, LAMBDA d : StartsWith(d.content, key))

_get_lines_for_character(all_dialogues, character_name) ==
    LET key == character_name \o <<FWColon>>
        char_colors == {all_dialogues[k].color :
                           k \in {j \in 1..Len(all_dialogues) : StartsWith(all_dialogues[j].content, key)}}
    IN  IF char_colors /= {}
        THEN SelectSeq(all_dialogues, LAMBDA d : d.color \in char_colors)
        ELSE SelectSeq(all_dialogues, LAMBDA d : StartsWith(d.content, key))

-----------------------------------------------------------------------------
(* analyzer.py: analyze_character_mentions, the loop over main_char_lines *)

RECURSIVE Repeat(_, _)
Repeat(x, n) == IF n = 0 THEN <<>> ELSE <<x>> \o Repeat(x, n - 1)

\* the line is appended once per counted nickname, not once per occurrence
AppendDetailsOnce(detailed, line_counts, line) ==
    [key \in (DOMAIN detailed) \cup BagToSet(line_counts) |->
        (IF key \in DOMAIN detailed THEN detailed[key] ELSE <<>>)
        \o (IF BagIn(key, line_counts) THEN <<line>> ELSE <<>>)]

\* for _ in range(count): episode_detailed_mentions[char][nickname].append(line)
AppendDetails(detailed, line_counts, line) ==
    [key \in (DOMAIN detailed) \cup BagToSet(line_counts) |->
        (IF key \in DOMAIN detailed THEN detailed[key] ELSE <<>>)
        \o Repeat(line, CopiesIn(key, line_counts))]

\* "=" where the code has "+=": the running total is overwritten
AddToTotalOverwrites(total, line_counts) ==
    [key \in BagToSet(total) \cup BagToSet(line_counts) |->
        IF BagIn(key, line_counts) THEN CopiesIn(key, line_counts) ELSE CopiesIn(key, total)]

\* total_mention_counts[char][nickname] += count
AddToTotal(total, line_counts) == total (+) line_counts

\* episode_counts[char][nickname] += count
AddToEpisode(episode_counts, line_counts) == episode_counts (+) line_counts

\* one iteration of "for line in main_char_lines"
LineStep(acc, line, main_char, registry, exact) ==
    LET actual == extract_mainchar_speech(line.content, main_char)
        line_counts == count_mentions_in_content(actual, registry, exact)
    IN  IF actual = None THEN acc
        ELSE [episode_counts |-> AddToEpisode(acc.episode_counts, line_counts),
              total_mention_counts |-> AddToTotal(acc.total_mention_counts, line_counts),
              episode_detailed_mentions |->
                  AppendDetails(acc.episode_detailed_mentions, line_counts, line)]

RECURSIVE LineLoop(_, _, _, _, _)
LineLoop(acc, lines, main_char, registry, exact) ==
    IF lines = <<>> THEN acc
    ELSE LineLoop(LineStep(acc, Head(lines), main_char, registry, exact),
                  Tail(lines), main_char, registry, exact)

\* the accumulators as the loop finds them at the start of an episode
StartOfEpisode(total) ==
    [episode_counts |-> EmptyBag, total_mention_counts |-> total,
     episode_detailed_mentions |-> << >>]

-----------------------------------------------------------------------------
(* The retrieval collaborator: the texts fetch_danmaku_xml can return *)

E(ts, uid, color, text) == [p |-> <<ts, "1", "25", color, "0", "0", uid>>, text |-> text]

\* u1 posts the script (jia in colour c1, yi in colour c2), u2 is audience;
\* one element has too few attributes
StreamA ==
    Xml(<< E("3", "u1", "c1", <<"jia", FWColon, "xiao", "yi", "ge", "ge">>),
           E("1", "u1", "c2", <<"yi", FWColon, "jia", "ge", "ge">>),
           E("2", "u1", "c1", <<"ge", "ge", "ge", Space>>),
           E("4", "u1", "c1", <<"yi", Slash, "bing", FWColon, "yi", Slash, "yi">>),
           [p |-> <<"5", "1", "25">>, text |-> <<"jia", FWColon, "yi">>],
           E("5", "u1", "c1", <<"jia", Slash, "yi", FWColon, "yi", Slash, "ge", "ge">>),
           E("6", "u1", "c2", <<"yi", FWColon, "hao">>),
           E("7", "u1", "c2", <<"yi", FWColon, "hao">>),
           E("8", "u1", "c2", <<"yi", FWColon, "hao">>),
           E("9", "u1", "c1", <<"jia", FWColon, "hao">>),
           E("0", "u2", "c3", <<"hao", "ge", "ge">>) >>)

StreamB ==
    Xml(<< E("1", "u1", "c1", <<"jia", FWColon, "ge", "ge", "ge", "ge">>),
           E("2", "u1", "c2", <<"yi", FWColon, "hao">>),
           E("3", "u1", "c1", <<"jia", FWColon, "yi">>),
           E("4", "u1", "c2", <<"yi", FWColon, "hao">>),
           E("5", "u1", "c2", <<"yi", FWColon, "hao">>),
           E("6", "u1", "c2", None) ,
           E("7", "u1", "c2", <<"yi", FWColon, "hao">>) >>)

\* a script in which the main character never speaks
StreamNoMain ==
    Xml(<< E("1", "u1", "c2", <<"yi", FWColon, "hao">>),
           E("2", "u1", "c2", <<"yi", FWColon, "hao">>),
           E("3", "u1", "c2", <<"yi", FWColon, "xiao", "yi">>),
           E("4", "u1", "c2", <<"yi", FWColon, "hao">>),
           E("5", "u1", "c2", <<"yi", FWColon, "hao">>),
           E("6", "u1", "c2", <<"yi", FWColon, "ge", "ge">>) >>)

\* nobody posts more than DefaultThreshold dialogue lines
StreamNoStaff ==
    Xml(<< E("1", "u1", "c1", <<"jia", FWColon, "xiao", "yi">>),
           E("2", "u2", "c3", <<"ge", "ge">>) >>)

\* an element with seven attributes whose first is not a number
StreamBadTimestamp ==
    Xml(<< E("1", "u1", "c1", <<"jia", FWColon, "xiao", "yi">>),
           E("abc", "u1", "c1", <<"jia", FWColon, "yi">>) >>)

FetchOutcomes ==
    {NoneXml, EmptyXml, BrokenXml, StreamA, StreamB, StreamNoMain, StreamNoStaff,
     StreamBadTimestamp}

-----------------------------------------------------------------------------
(* analyzer.py: analyze_character_mentions, one action per way through the  *)
(* body of "for i, episode in enumerate(episodes)"                          *)

\* longest episode list explored
MaxEpisodes == 3

\* all sequences over S of length at most n
SeqsUpTo(S, n) == UNION {[1..k -> S] : k \in 0..n}

EpisodePool == {[name |-> "E1", id |-> "101"], [name |-> "E2", id |-> "102"]}

PipelineMainCharacter == <<"jia">>

PipelineRegistry ==
    << [char |-> <<"yi">>, nicknames |-> << <<"xiao", "yi">>, <<"yi">> >>],
       [char |-> <<"bing">>, nicknames |-> << <<"ge", "ge">> >>] >>

\* all_character_names
AllCharacterNames(registry, main_char) ==
    [k \in 1..Len(registry) |-> registry[k].char] \o <<main_char>>

\* variables of the calls modelled on their own, at rest
CallVarsIdle ==
    /\ comments = <<>>
    /\ known_names = <<>>
    /\ staff_threshold = 0
    /\ staff_result = {}
    /\ candidates = <<>>
    /\ character_lines = <<>>
    /\ seconds = 0
    /\ formatted = <<>>

\* variables of the line-level calls, unused by the pipeline
LineVarsIdle ==
    /\ content = <<>>
    /\ actual_content = <<>>
    /\ all_matches = <<>>
    /\ non_overlapping = <<>>
    /\ counts = EmptyBag

Init ==
    /\ pc = "loop"
    /\ CallVarsIdle
    /\ episodes \in SeqsUpTo(EpisodePool, MaxEpisodes)
    /\ main_character = PipelineMainCharacter
    /\ target_characters = PipelineRegistry
    /\ exact_match \in BOOLEAN
    /\ i = 0
    /\ total_mention_counts = EmptyBag
    /\ per_episode_results = <<>>
    /\ progress = <<>>
    /\ fetched = <<>>
    /\ LineVarsIdle

\* the index is i where the code has i + 1
ProcessingMsgFromZero ==
    [kind |-> "processing", index |-> i, total |-> Len(episodes),
     name |-> episodes[i + 1].name, id |-> episodes[i + 1].id]

\* progress_callback(f"[{i + 1}/{total_episodes}] ...: {ep_name} (ID: {ep_id})")
ProcessingMsg ==
    [kind |-> "processing", index |-> i + 1, total |-> Len(episodes),
     name |-> episodes[i + 1].name, id |-> episodes[i + 1].id]

FetchFailedMsg == [kind |-> "fetch_failed"]
NoStaffMsg == [kind |-> "no_staff"]

InLoop == pc = "loop" /\ i < Len(episodes)

\* ep_name and ep_id are those of the first episode, as if bound before the loop
EpisodeResultOfFirst(episode, main_char_lines, acc) ==
    [name |-> episodes[1].name, id |-> episodes[1].id,
     main_char_lines |-> Len(main_char_lines),
     mentions |-> acc.episode_counts,
     detailed_mentions |-> acc.episode_detailed_mentions]

\* the dict appended to per_episode_results
EpisodeResult(episode, main_char_lines, acc) ==
    [name |-> episode.name, id |-> episode.id,
     main_char_lines |-> Len(main_char_lines),
     mentions |-> acc.episode_counts,
     detailed_mentions |-> acc.episode_detailed_mentions]

\* "break" where the code has "continue": the loop is left and the function
\* returns
FetchFailedBreaks ==
    /\ InLoop
    /\ \E xml_content \in FetchOutcomes :
        /\ Falsy(xml_content)
        /\ fetched' = Append(fetched, xml_content)
        /\ progress' = progress \o <<ProcessingMsg, FetchFailedMsg>>
        /\ pc' = "done"
    /\ UNCHANGED <<callVars, episodes, main_character, target_characters, exact_match, i,
                   total_mention_counts, per_episode_results,
                   content, actual_content, all_matches, non_overlapping, counts>>

\* "if not xml_content: ... continue"
FetchFailed ==
    /\ InLoop
    /\ \E xml_content \in FetchOutcomes :
        /\ Falsy(xml_content)
        /\ fetched' = Append(fetched, xml_content)
        /\ progress' = progress \o <<ProcessingMsg, FetchFailedMsg>>
        /\ i' = i + 1
    /\ UNCHANGED <<callVars, pc, episodes, main_character, target_characters, exact_match,
                   total_mention_counts, per_episode_results,
                   content, actual_content, all_matches, non_overlapping, counts>>

\* parse_danmaku_xml raises: the exception leaves analyze_character_mentions
ParseRaised ==
    /\ InLoop
    /\ \E xml_content \in FetchOutcomes :
        /\ ~Falsy(xml_content)
        /\ parse_danmaku_xml(xml_content).raised
        /\ fetched' = Append(fetched, xml_content)
        /\ progress' = Append(progress, ProcessingMsg)
        /\ pc' = "raised"
    /\ UNCHANGED <<callVars, episodes, main_character, target_characters, exact_match, i,
                   total_mention_counts, per_episode_results,
                   content, actual_content, all_matches, non_overlapping, counts>>

\* no notification and no "continue": the episode is recorded with zero lines
NoStaffRecordsZero ==
    /\ InLoop
    /\ \E xml_content \in FetchOutcomes :
        LET parsed == parse_danmaku_xml(xml_content)
            staff_ids == identify_staff(parsed.value,
                             AllCharacterNames(target_characters, main_character),
                             DefaultThreshold)
        IN  /\ ~Falsy(xml_content)
            /\ ~parsed.raised
            /\ staff_ids = {}
            /\ fetched' = Append(fetched, xml_content)
            /\ progress' = Append(progress, ProcessingMsg)
            /\ per_episode_results' =
                   Append(per_episode_results,
                          EpisodeResult(episodes[i + 1], <<>>,
                                        StartOfEpisode(total_mention_counts)))
            /\ i' = i + 1
    /\ UNCHANGED <<callVars, pc, episodes, main_character, target_characters, exact_match,
                   total_mention_counts,
                   content, actual_content, all_matches, non_overlapping, counts>>

\* "if not staff_ids: ... continue"
NoStaff ==
    /\ InLoop
    /\ \E xml_content \in FetchOutcomes :
        LET parsed == parse_danmaku_xml(xml_content)
            staff_ids == identify_staff(parsed.value,
                             AllCharacterNames(target_characters, main_character),
                             DefaultThreshold)
        IN  /\ ~Falsy(xml_content)
            /\ ~parsed.raised
            /\ staff_ids = {}
            /\ fetched' = Append(fetched, xml_content)
            /\ progress' = progress \o <<ProcessingMsg, NoStaffMsg>>
            /\ i' = i + 1
    /\ UNCHANGED <<callVars, pc, episodes, main_character, target_characters, exact_match,
                   total_mention_counts, per_episode_results,
                   content, actual_content, all_matches, non_overlapping, counts>>

\* main_char_lines counts only the lines that passed extract_mainchar_speech
AccumulateCountsSpoken ==
    /\ InLoop
    /\ \E xml_content \in FetchOutcomes :
        LET parsed == parse_danmaku_xml(xml_content)
            staff_ids == identify_staff(parsed.value,
                             AllCharacterNames(target_characters, main_character),
                             DefaultThreshold)
            all_dialogues == get_dialogues_by_ids(parsed.value, staff_ids)
            main_char_lines == _get_lines_for_character(all_dialogues, main_character)
            spoken == SelectSeq(main_char_lines,
                          LAMBDA line : extract_mainchar_speech(line.content, main_character) /= None)
            acc == LineLoop(StartOfEpisode(total_mention_counts), main_char_lines,
                            main_character, target_characters, exact_match)
        IN  /\ ~Falsy(xml_content)
            /\ ~parsed.raised
            /\ staff_ids /= {}
            /\ fetched' = Append(fetched, xml_content)
            /\ progress' = Append(progress, ProcessingMsg)
            /\ total_mention_counts' = acc.total_mention_counts
            /\ per_episode_results' =
                   Append(per_episode_results,
                          EpisodeResult(episodes[i + 1], spoken, acc))
            /\ i' = i + 1
    /\ UNCHANGED <<callVars, pc, episodes, main_character, target_characters, exact_match,
                   content, actual_content, all_matches, non_overlapping, counts>>

\* steps 3 and 4 of the body and per_episode_results.append
Accumulate ==
    /\ InLoop
    /\ \E xml_content \in FetchOutcomes :
        LET parsed == parse_danmaku_xml(xml_content)
            staff_ids == identify_staff(parsed.value,
                             AllCharacterNames(target_characters, main_character),
                             DefaultThreshold)
            all_dialogues == get_dialogues_by_ids(parsed.value, staff_ids)
            main_char_lines == _get_lines_for_character(all_dialogues, main_character)
            acc == LineLoop(StartOfEpisode(total_mention_counts), main_char_lines,
                            main_character, target_characters, exact_match)
        IN  /\ ~Falsy(xml_content)
            /\ ~parsed.raised
            /\ staff_ids /= {}
            /\ fetched' = Append(fetched, xml_content)
            /\ progress' = Append(progress, ProcessingMsg)
            /\ total_mention_counts' = acc.total_mention_counts
            /\ per_episode_results' =
                   Append(per_episode_results,
                          EpisodeResult(episodes[i + 1], main_char_lines, acc))
            /\ i' = i + 1
    /\ UNCHANGED <<callVars, pc, episodes, main_character, target_characters, exact_match,
                   content, actual_content, all_matches, non_overlapping, counts>>

\* the loop is exhausted: return {"total_mentions": ..., "per_episode_details": ...}
Return ==
    /\ pc = "loop"
    /\ i = Len(episodes)
    /\ pc' = "done"
    /\ UNCHANGED <<callVars, episodes, main_character, target_characters, exact_match, i,
                   total_mention_counts, per_episode_results, progress, fetched,
                   content, actual_content, all_matches, non_overlapping, counts>>

Next == FetchFailed \/ ParseRaised \/ NoStaff \/ Accumulate \/ Return

Spec == Init /\ [][Next]_vars

-----------------------------------------------------------------------------
(* extract_mainchar_speech on its own: one pass through the body of         *)
(* "for line in main_char_lines" for every short line                       *)

\* longest line explored
MaxContent == 6

SpeechAlphabet == {"jia", "yi", FWColon, Slash, Space, "stop"}

SpeechNames == {<<"jia">>, <<"yi">>}

SpeechRegistry == << [char |-> <<"yi">>, nicknames |-> << <<"yi">> >>] >>

InitSpeech ==
    /\ pc = "line"
    /\ CallVarsIdle
    /\ content \in SeqsUpTo(SpeechAlphabet, MaxContent)
    /\ main_character \in SpeechNames
    /\ target_characters = SpeechRegistry
    /\ exact_match = TRUE
    /\ episodes = <<>>
    /\ i = 0
    /\ total_mention_counts = EmptyBag
    /\ per_episode_results = <<>>
    /\ progress = <<>>
    /\ fetched = <<>>
    /\ actual_content = <<>>
    /\ all_matches = <<>>
    /\ non_overlapping = <<>>
    /\ counts = EmptyBag

\* lines 169-185 for the line whose text is content
ProcessLine ==
    /\ pc = "line"
    /\ LET line == Danmaku(0, "u1", "c1", content)
           acc == LineStep(StartOfEpisode(total_mention_counts), line,
                           main_character, target_characters, exact_match)
       IN  /\ actual_content' = extract_mainchar_speech(content, main_character)
           /\ counts' = acc.episode_counts
           /\ total_mention_counts' = acc.total_mention_counts
    /\ pc' = "next_line"
    /\ UNCHANGED <<callVars, episodes, main_character, target_characters, exact_match, i,
                   per_episode_results, progress, fetched, content,
                   all_matches, non_overlapping>>

NextSpeech == ProcessLine

SpecSpeech == InitSpeech /\ [][NextSpeech]_vars

-----------------------------------------------------------------------------
(* count_mentions_in_content on its own, for every short text and every     *)
(* small registry                                                           *)

\* longest text explored
MaxText == 4

\* longest nickname explored
MaxNick == 2

\* most (character, nickname) pairs in a registry explored
MaxPairs == 2

CountAlphabet == {"xiao", "ming"}

Nicknames == SeqsUpTo(CountAlphabet, MaxNick)

CharKeys == << <<"jia">>, <<"yi">>, <<"bing">>, <<"ding">> >>

\* the registry whose nickname lists, concatenated, are nicks, a new
\* character starting after every position in cuts
RegistryOf(nicks, cuts) ==
    LET group(k) == 1 + Cardinality({c \in cuts : c < k})
        pick(g) == {k \in 1..Len(nicks) : group(k) = g}
        from(g) == CHOOSE k \in pick(g) : \A j \in pick(g) : k <= j
    IN  [g \in 1..(IF nicks = <<>> THEN 0 ELSE Cardinality(cuts) + 1) |->
            [char |-> CharKeys[g],
             nicknames |-> [k \in 1..Cardinality(pick(g)) |-> nicks[from(g) + k - 1]]]]

\* one character holding all the nicknames, or one character per nickname
Registries ==
    UNION {{RegistryOf(nicks, cuts) : nicks \in [1..n -> Nicknames], cuts \in {{}, 1..(n - 1)}} :
              n \in 0..MaxPairs}

InitCount ==
    /\ pc = "call"
    /\ CallVarsIdle
    /\ content \in SeqsUpTo(CountAlphabet, MaxText)
    /\ target_characters \in Registries
    /\ exact_match \in BOOLEAN
    /\ main_character = <<>>
    /\ episodes = <<>>
    /\ i = 0
    /\ total_mention_counts = EmptyBag
    /\ per_episode_results = <<>>
    /\ progress = <<>>
    /\ fetched = <<>>
    /\ actual_content = <<>>
    /\ all_matches = <<>>
    /\ non_overlapping = <<>>
    /\ counts = EmptyBag

\* the call count_mentions_in_content(content, target_characters, exact_match);
\* non_overlapping keeps the whole hit where the code keeps (char, nickname)
CountMentions ==
    /\ pc = "call"
    /\ all_matches' = SortByStart(CollectMatches(content, target_characters, exact_match))
    /\ non_overlapping' = NonOverlapping(all_matches')
    /\ counts' = count_mentions_in_content(content, target_characters, exact_match)
    /\ pc' = "return"
    /\ UNCHANGED <<callVars, episodes, main_character, target_characters, exact_match, i,
                   total_mention_counts, per_episode_results, progress, fetched,
                   content, actual_content>>

NextCount == CountMentions

SpecCount == InitCount /\ [][NextCount]_vars

-----------------------------------------------------------------------------
(* identify_staff on its own, for every short comment list *)

\* longest comment list explored
MaxComments == 4

\* largest threshold explored
MaxThreshold == 2

\* texts that match the dialogue pattern, and texts that do not: no colon,
\* and a Latin-1 character before the colon
StaffTexts ==
    {<<"jia", FWColon, "hao">>, <<"hao">>, <<"jia", Slash, "yi", FWColon, "hao">>}

StaffComments == {Danmaku(0, u, "c1", t) : u \in {"u1", "u2"}, t \in StaffTexts}

\* threshold is an int: one negative value and 0..MaxThreshold
Thresholds == (0 - 1)..MaxThreshold

KnownNamesChoices == {<<>>, << <<"yi">> >>}

InitStaff ==
    /\ pc = "call"
    /\ comments \in SeqsUpTo(StaffComments, MaxComments)
    /\ known_names \in KnownNamesChoices
    /\ staff_threshold \in Thresholds
    /\ staff_result = {}
    /\ candidates = <<>>
    /\ character_lines = <<>>
    /\ seconds = 0
    /\ formatted = <<>>
    /\ episodes = <<>>
    /\ main_character = <<>>
    /\ target_characters = <<>>
    /\ exact_match = TRUE
    /\ i = 0
    /\ total_mention_counts = EmptyBag
    /\ per_episode_results = <<>>
    /\ progress = <<>>
    /\ fetched = <<>>
    /\ LineVarsIdle

\* the call identify_staff(comments, known_names, staff_threshold)
IdentifyStaff ==
    /\ pc = "call"
    /\ staff_result' = identify_staff(comments, known_names, staff_threshold)
    /\ pc' = "return"
    /\ UNCHANGED <<episodes, main_character, target_characters, exact_match, i,
                   total_mention_counts, per_episode_results, progress, fetched,
                   content, actual_content, all_matches, non_overlapping, counts,
                   comments, known_names, staff_threshold,
                   candidates, character_lines, seconds, formatted>>

NextStaff == IdentifyStaff

SpecStaff == InitStaff /\ [][NextStaff]_vars

-----------------------------------------------------------------------------
(* _get_lines_for_character on its own, for every short candidate list *)

\* longest candidate list explored
MaxCandidates == 4

\* the colour field is the text of the p attribute's fourth part; it may be empty
LineColors == {"", "c1", "c2"}

\* texts prefixed by the character, prefixed by another one who quotes the
\* character, and not prefixed
LineTexts ==
    {<<"jia", FWColon, "hao">>, <<"yi", FWColon, "jia", FWColon, "hao">>, <<"hao">>}

LineCandidates == {Danmaku(0, "u1", c, t) : c \in LineColors, t \in LineTexts}

InitLines ==
    /\ pc = "call"
    /\ candidates \in SeqsUpTo(LineCandidates, MaxCandidates)
    /\ main_character = <<"jia">>
    /\ character_lines = <<>>
    /\ comments = <<>>
    /\ known_names = <<>>
    /\ staff_threshold = 0
    /\ staff_result = {}
    /\ seconds = 0
    /\ formatted = <<>>
    /\ episodes = <<>>
    /\ target_characters = <<>>
    /\ exact_match = TRUE
    /\ i = 0
    /\ total_mention_counts = EmptyBag
    /\ per_episode_results = <<>>
    /\ progress = <<>>
    /\ fetched = <<>>
    /\ LineVarsIdle

\* the call _get_lines_for_character(candidates, main_character)
GetLines ==
    /\ pc = "call"
    /\ character_lines' = _get_lines_for_character(candidates, main_character)
    /\ pc' = "return"
    /\ UNCHANGED <<episodes, main_character, target_characters, exact_match, i,
                   total_mention_counts, per_episode_results, progress, fetched,
                   content, actual_content, all_matches, non_overlapping, counts,
                   comments, known_names, staff_threshold, staff_result,
                   candidates, seconds, formatted>>

NextLines == GetLines

SpecLines == InitLines /\ [][NextLines]_vars

-----------------------------------------------------------------------------
(* utils.py: format_time, for every offset up to MaxSeconds *)

\* largest offset explored, above one hundred minutes
MaxSeconds == 6100

DecimalDigit == <<"0", "1", "2", "3", "4", "5", "6", "7", "8", "9">>

\* str(n) for n >= 0
RECURSIVE Decimal(_)
Decimal(n) ==
    IF n < 10 THEN <<DecimalDigit[n + 1]>>
    ELSE Decimal(n \div 10) \o <<DecimalDigit[(n % 10) + 1]>>

\* the field is not padded: "{n}" where the code has "{n:02d}"
Unpadded(n) == Decimal(n)

\* f"{n:02d}" for n >= 0: zeros on the left up to a width of at least two
ZeroPad2(n) ==
    IF Len(Decimal(n)) < 2 THEN <<"0">> \o Decimal(n) ELSE Decimal(n)

\* isinstance(seconds, (int, float))
IsNumber(x) == x.type \in {"int", "float"}

format_time(x) ==
    IF ~IsNumber(x) THEN <<"0", "0", ":", "0", "0">>
    ELSE LET minutes == x.value \div 60
             secs == x.value % 60
         IN  ZeroPad2(minutes) \o <<":">> \o ZeroPad2(secs)

\* whole offsets as int and as float, and two values that are not numbers
TimeInputs ==
    {[type |-> t, value |-> n] : t \in {"int", "float"}, n \in 0..MaxSeconds}
        \cup {[type |-> "str", value |-> 0], [type |-> "NoneType", value |-> 0]}

InitTime ==
    /\ pc = "call"
    /\ seconds \in TimeInputs
    /\ formatted = <<>>
    /\ comments = <<>>
    /\ known_names = <<>>
    /\ staff_threshold = 0
    /\ staff_result = {}
    /\ candidates = <<>>
    /\ character_lines = <<>>
    /\ episodes = <<>>
    /\ main_character = <<>>
    /\ target_characters = <<>>
    /\ exact_match = TRUE
    /\ i = 0
    /\ total_mention_counts = EmptyBag
    /\ per_episode_results = <<>>
    /\ progress = <<>>
    /\ fetched = <<>>
    /\ LineVarsIdle

\* the call format_time(seconds)
FormatTime ==
    /\ pc = "call"
    /\ formatted' = format_time(seconds)
    /\ pc' = "return"
    /\ UNCHANGED <<episodes, main_character, target_characters, exact_match, i,
                   total_mention_counts, per_episode_results, progress, fetched,
                   content, actual_content, all_matches, non_overlapping, counts,
                   comments, known_names, staff_threshold, staff_result,
                   candidates, character_lines, seconds>>

NextTime == FormatTime

SpecTime == InitTime /\ [][NextTime]_vars

-----------------------------------------------------------------------------
(* Properties of analyze_character_mentions, checked under Spec *)

\* the (character, nickname) pairs of a registry
RegistryPairs(registry) ==
    UNION {{<<registry[g].char, registry[g].nicknames[k]>> : k \in 1..Len(registry[g].nicknames)} :
              g \in 1..Len(registry)}

\* sum of mentions[key] over the first n episode results, a missing entry
\* counting as 0
RECURSIVE SumMentions(_, _, _)
SumMentions(results, n, key) ==
    IF n = 0 THEN 0
    ELSE SumMentions(results, n - 1, key)
         + (IF key \in DOMAIN results[n].mentions THEN results[n].mentions[key] ELSE 0)

\* C1: at every episode boundary and when the function returns, for every
\* character c and nickname n, total_mentions[c][n] is the sum of
\* mentions[c][n] over the episode results recorded so far, and no other
\* key appears in total_mentions.
C1_FoldInvariant ==
    /\ DOMAIN total_mention_counts \subseteq RegistryPairs(target_characters)
    /\ \A key \in RegistryPairs(target_characters) :
          (IF key \in DOMAIN total_mention_counts THEN total_mention_counts[key] ELSE 0)
              = SumMentions(per_episode_results, Len(per_episode_results), key)

\* a finished run over two episodes that both recorded nonzero counts
C1_Witness ==
    /\ pc = "done"
    /\ \E j, k \in 1..Len(per_episode_results) :
          /\ j < k
          /\ per_episode_results[j].mentions /= EmptyBag
          /\ per_episode_results[k].mentions /= EmptyBag

\* C2: a step in which fetch_danmaku_xml returns None leaves total_mentions
\* and per_episode_details as they were and moves the loop on to the next
\* episode; a run that returns has issued one request per episode of the
\* input, in order.
C2_AbsentEpisodeSkipped ==
    /\ [][(Len(fetched') = Len(fetched) + 1 /\ fetched'[Len(fetched')] = NoneXml)
             => /\ total_mention_counts' = total_mention_counts
                /\ per_episode_results' = per_episode_results
                /\ i' = i + 1
                /\ pc' = "loop"]_vars
    /\ [](pc = "done" =>
             /\ Len(fetched) = Len(episodes)
             /\ \A k \in 1..Len(episodes) :
                   \E m \in 1..Len(progress) :
                      /\ progress[m].kind = "processing"
                      /\ progress[m].index = k
                      /\ progress[m].id = episodes[k].id)

\* a finished run in which an episode came back absent and the episode
\* after it was processed and recorded with nonzero counts
C2_Witness ==
    /\ pc = "done"
    /\ \E k \in 1..(Len(fetched) - 1) :
          /\ fetched[k] = NoneXml
          /\ fetched[k + 1] \in {StreamA, StreamB}
    /\ \E j \in 1..Len(per_episode_results) : per_episode_results[j].mentions /= EmptyBag

\* C3: no exception raised while an episode is processed ends the run:
\* whatever the streams contain, the run is never left by an exception.
C3_RunNeverAborts == pc /= "raised"

-----------------------------------------------------------------------------
(* Properties of extract_mainchar_speech, checked under SpecSpeech *)

\* p occurs in s
Occurs(s, p) == \E k \in 0..(Len(s) - Len(p)) : SubSeq(s, k + 1, k + Len(p)) = p

\* position of the first full-width colon of s (s has one), 0-based
FirstColon(s) == CHOOSE k \in 0..(Len(s) - 1) : s[k + 1] = FWColon /\ \A j \in 1..k : s[j] /= FWColon

\* s[a:b] is one of the slash-separated pieces of s[lo:hi]
IsPiece(s, lo, hi, a, b) ==
    /\ lo <= a /\ a <= b /\ b <= hi
    /\ a = lo \/ s[a] = Slash
    /\ b = hi \/ s[b + 1] = Slash
    /\ \A j \in (a + 1)..b : s[j] /= Slash

\* name is one of the trimmed slash-separated role names before the first colon
IsRole(s, name) ==
    \E a, b \in 0..FirstColon(s) :
        IsPiece(s, 0, FirstColon(s), a, b) /\ Strip(Slice(s, a, b)) = name

\* the pieces of s[lo:hi], as <<a, b>> bounds
Pieces(s, lo, hi) == {ab \in (lo..hi) \X (lo..hi) : IsPiece(s, lo, hi, ab[1], ab[2])}

\* the n-th piece (1-based) among a set of pieces
NthPiece(ps, n) == CHOOSE ab \in ps : Cardinality({cd \in ps : cd[1] < ab[1]}) = n - 1

\* content has the form r1/.../rk：s1/.../sk with k >= 2 distinct non-empty
\* role names written without surrounding blanks and k speech pieces
IsBalanced(s) ==
    /\ Occurs(s, <<FWColon>>)
    /\ LET c == FirstColon(s)
           rs == Pieces(s, 0, c)
           ss == Pieces(s, c + 1, Len(s))
       IN  /\ Cardinality(rs) >= 2
           /\ Cardinality(ss) = Cardinality(rs)
           /\ \A ab \in rs : Slice(s, ab[1], ab[2]) /= <<>>
           /\ \A ab \in rs : Slice(s, ab[1], ab[2]) = Strip(Slice(s, ab[1], ab[2]))
           /\ \A ab, cd \in rs : ab /= cd => Slice(s, ab[1], ab[2]) /= Slice(s, cd[1], cd[2])

\* C4: for a balanced line r1/.../rk：s1/.../sk and the role ri, last role
\* included, extract_mainchar_speech returns the piece si, trimmed.
C4_BalancedSplit ==
    (pc = "next_line" /\ IsBalanced(content)) =>
        LET c == FirstColon(content)
            rs == Pieces(content, 0, c)
            ss == Pieces(content, c + 1, Len(content))
        IN  \A n \in 1..Cardinality(rs) :
                Slice(content, NthPiece(rs, n)[1], NthPiece(rs, n)[2]) = main_character
                    => actual_content
                         = Strip(Slice(content, NthPiece(ss, n)[1], NthPiece(ss, n)[2]))

\* C5: the result is None exactly when the line does not contain
\* "character：", contains both '/' and the full-width colon, and character
\* is not one of the trimmed role names before the first colon; a line whose
\* result is None adds nothing to the episode's counts or to the totals.
C5_AbsentExactlyWhenNotARole ==
    pc = "next_line" =>
        /\ actual_content = None
              <=> /\ ~Occurs(content, main_character \o <<FWColon>>)
                  /\ Occurs(content, <<Slash>>)
                  /\ Occurs(content, <<FWColon>>)
                  /\ ~IsRole(content, main_character)
        /\ actual_content = None => (counts = EmptyBag /\ total_mention_counts = EmptyBag)

\* a line not attributable to the main character although it contains a
\* nickname of the registry
C5_Witness ==
    /\ pc = "next_line"
    /\ actual_content = None
    /\ \E g \in 1..Len(target_characters) :
          \E k \in 1..Len(target_characters[g].nicknames) :
             Occurs(content, target_characters[g].nicknames[k])

\* C6: the line is returned unchanged whenever it contains "character：" or
\* does not contain both '/' and the full-width colon.
C6_ReturnedUnchanged ==
    (/\ pc = "next_line"
     /\ \/ Occurs(content, main_character \o <<FWColon>>)
        \/ ~(Occurs(content, <<Slash>>) /\ Occurs(content, <<FWColon>>)))
        => actual_content = content

\* a multi-speaker line that names the character right before the colon,
\* but not at the start, is returned whole
C6_Witness ==
    /\ pc = "next_line"
    /\ Occurs(content, main_character \o <<FWColon>>)
    /\ ~StartsWith(content, main_character \o <<FWColon>>)
    /\ Occurs(content, <<Slash>>)
    /\ IsRole(content, main_character)
    /\ actual_content = content

-----------------------------------------------------------------------------
(* Properties of count_mentions_in_content, checked under SpecCount *)

\* the 0-based positions at which p occurs in s
Occurrences(s, p) == {k \in 0..(Len(s) - Len(p)) : SubSeq(s, k + 1, k + Len(p)) = p}

\* number of occurrences met by a scan from position from that resumes at
\* the end of each occurrence (p not empty)
RECURSIVE ScanCount(_, _, _)
ScanCount(s, p, from) ==
    LET later == {k \in Occurrences(s, p) : k >= from}
        first == CHOOSE k \in later : \A j \in later : k <= j
    IN  IF later = {} THEN 0 ELSE 1 + ScanCount(s, p, first + Len(p))

\* s is p written m times, m >= 1 (p not empty)
IsRepetition(s, p) ==
    /\ s /= <<>>
    /\ Len(s) % Len(p) = 0
    /\ \A k \in 1..Len(s) : s[k] = p[((k - 1) % Len(p)) + 1]

\* the registry holds one character with one non-empty nickname
SingleNickname(registry) ==
    /\ Len(registry) = 1
    /\ Len(registry[1].nicknames) = 1
    /\ registry[1].nicknames[1] /= <<>>

\* C7: with one character, one non-empty nickname n and exact_match=True,
\* the count is the number of occurrences of n met by a left-to-right scan
\* that resumes at the end of each match: n written m times gives m, and a
\* text without n gives the empty mapping.
C7_ExactScanCount ==
    (pc = "return" /\ exact_match /\ SingleNickname(target_characters)) =>
        LET n == target_characters[1].nicknames[1]
            key == <<target_characters[1].char, n>>
            m == ScanCount(content, n, 0)
        IN  /\ counts = (IF m = 0 THEN EmptyBag ELSE [k \in {key} |-> m])
            /\ IsRepetition(content, n) => CopiesIn(key, counts) = Len(content) \div Len(n)
            /\ Occurrences(content, n) = {} => counts = EmptyBag

\* a two-character nickname written twice counts 2
C7_Witness ==
    /\ pc = "return"
    /\ exact_match
    /\ SingleNickname(target_characters)
    /\ Len(target_characters[1].nicknames[1]) = 2
    /\ content = target_characters[1].nicknames[1] \o target_characters[1].nicknames[1]
    /\ target_characters[1].nicknames[1][1] = target_characters[1].nicknames[1][2]
    /\ counts = [k \in {<<target_characters[1].char, target_characters[1].nicknames[1]>>} |-> 2]

\* the (character, nickname) pairs of a registry in iteration order
RECURSIVE PairList(_)
PairList(registry) ==
    IF registry = <<>> THEN <<>>
    ELSE [k \in 1..Len(Head(registry).nicknames) |->
             <<Head(registry).char, Head(registry).nicknames[k]>>]
         \o PairList(Tail(registry))

\* the positions at which a scan of s for p from position from stops: it
\* resumes at the end of each occurrence (one past it when p is empty)
RECURSIVE ScanPositions(_, _, _)
ScanPositions(s, p, from) ==
    LET later == {k \in Occurrences(s, p) : k >= from}
        first == CHOOSE k \in later : \A j \in later : k <= j
    IN  IF later = {} THEN {}
        ELSE {first} \cup ScanPositions(s, p, first + (IF p = <<>> THEN 1 ELSE Len(p)))

\* the positions at which the nickname is collected in the given mode
Collected(s, p, exact) == IF exact THEN ScanPositions(s, p, 0) ELSE Occurrences(s, p)

\* the hits that start at position pos, in registry iteration order
HitsAt(s, pairs, exact, pos) ==
    LET here == SelectSeq(pairs, LAMBDA pair : pos \in Collected(s, pair[2], exact))
    IN  [k \in 1..Len(here) |-> Hit(here[k][1], here[k][2], pos)]

\* C8: the hit list holds every collected hit, ordered by ascending start
\* with ties in registry iteration order; the kept hits are taken from it in order, never overlap,
\* start with the first hit, and every hit left out starts before the end of
\* a kept hit that does not start after it; the result counts one per kept
\* hit.
C8_GreedyNonOverlapping ==
    pc = "return" =>
        /\ \A j, k \in 1..Len(all_matches) : j < k => all_matches[j].start <= all_matches[k].start
        /\ LET pairs == PairList(target_characters)
           IN  \A pos \in 0..Len(content) :
                  SelectSeq(all_matches, LAMBDA h : h.start = pos)
                     = HitsAt(content, pairs, exact_match, pos)
        /\ \A k \in 1..Len(all_matches) : all_matches[k].start \in 0..Len(content)
        /\ (all_matches /= <<>>) => (non_overlapping /= <<>> /\ non_overlapping[1] = all_matches[1])
        /\ \A k \in 1..Len(non_overlapping) : \E j \in 1..Len(all_matches) : all_matches[j] = non_overlapping[k]
        /\ \A k \in 1..(Len(non_overlapping) - 1) :
              non_overlapping[k].end <= non_overlapping[k + 1].start
        /\ \A j \in 1..Len(all_matches) :
              \/ \E k \in 1..Len(non_overlapping) : non_overlapping[k] = all_matches[j]
              \/ \E k \in 1..Len(non_overlapping) :
                    /\ non_overlapping[k].start <= all_matches[j].start
                    /\ all_matches[j].start < non_overlapping[k].end
        /\ LET keys == RegistryPairs(target_characters)
           IN  /\ DOMAIN counts \subseteq keys
               /\ \A key \in keys :
                     CopiesIn(key, counts)
                        = Cardinality({k \in 1..Len(non_overlapping) :
                                          <<non_overlapping[k].char, non_overlapping[k].nickname>> = key})

\* "xiao ming" for one character and "ming" for another, in a text that
\* starts with "xiao ming": the hit of "ming" inside it is not counted
C8_Witness ==
    /\ pc = "return"
    /\ target_characters = << [char |-> CharKeys[1], nicknames |-> << <<"xiao", "ming">> >>],
                              [char |-> CharKeys[2], nicknames |-> << <<"ming">> >>] >>
    /\ content = <<"xiao", "ming", "xiao", "xiao">>
    /\ Len(all_matches) = 2
    /\ counts = SetToBag({<<CharKeys[1], <<"xiao", "ming">> >>})

\* the registry declared in the opposite order: characters reversed and each
\* nickname list reversed
ReverseSeq(l) == [k \in 1..Len(l) |-> l[Len(l) + 1 - k]]

ReverseRegistry(registry) ==
    ReverseSeq([g \in 1..Len(registry) |->
                   [char |-> registry[g].char, nicknames |-> ReverseSeq(registry[g].nicknames)]])

\* place of a hit's (character, nickname) in the registry iteration order
Rank(registry, h) ==
    CHOOSE k \in 1..Len(PairList(registry)) :
        /\ PairList(registry)[k] = <<h.char, h.nickname>>
        /\ \A j \in 1..(k - 1) : PairList(registry)[j] /= <<h.char, h.nickname>>

\* the nicknames of the registry are non-empty and no nickname is declared
\* twice, so that hits with the same start never tie in length
DistinctNicknames(registry) ==
    /\ \A k \in 1..Len(PairList(registry)) : PairList(registry)[k][2] /= <<>>
    /\ \A j, k \in 1..Len(PairList(registry)) :
          j /= k => PairList(registry)[j][2] /= PairList(registry)[k][2]

\* C9: among the hits that start at the same position the longest nickname
\* is the one counted, and the result is the same when the registry is
\* declared in another order (stated for registries of non-empty, pairwise
\* different nicknames, where no two such hits tie in length).
C9_LeftmostLongest ==
    (pc = "return" /\ DistinctNicknames(target_characters)) =>
        /\ \A k \in 1..Len(non_overlapping) : \A j \in 1..Len(all_matches) :
              all_matches[j].start = non_overlapping[k].start
                  => Len(all_matches[j].nickname) <= Len(non_overlapping[k].nickname)
        /\ counts = count_mentions_in_content(content, ReverseRegistry(target_characters), exact_match)

\* C9 as amended: among the hits that start at the same position, a hit is
\* counted only if no hit of a non-empty nickname was discovered before it
\* in registry iteration order, whatever the lengths.
C9_LeftmostFirstDeclared ==
    pc = "return" =>
        \A k \in 1..Len(non_overlapping) : \A j \in 1..Len(all_matches) :
            ~(/\ all_matches[j].start = non_overlapping[k].start
              /\ all_matches[j].nickname /= <<>>
              /\ Rank(target_characters, all_matches[j])
                    < Rank(target_characters, non_overlapping[k]))

\* a counted hit with a longer hit, declared later, at the same start
C9_Witness ==
    /\ pc = "return"
    /\ \E k \in 1..Len(non_overlapping) : \E j \in 1..Len(all_matches) :
          /\ all_matches[j].start = non_overlapping[k].start
          /\ Len(all_matches[j].nickname) > Len(non_overlapping[k].nickname)
          /\ non_overlapping[k].nickname /= <<>>
          /\ Rank(target_characters, non_overlapping[k]) < Rank(target_characters, all_matches[j])
          /\ ~BagIn(<<all_matches[j].char, all_matches[j].nickname>>, counts)

\* a nickname overlaps itself when one of its proper non-empty prefixes is
\* also its suffix
SelfOverlapping(n) ==
    \E k \in 1..(Len(n) - 1) : SubSeq(n, 1, k) = SubSeq(n, Len(n) - k + 1, Len(n))

NoSelfOverlap(registry) ==
    \A key \in RegistryPairs(registry) : ~SelfOverlapping(key[2])

\* C10: exact_match=True and exact_match=False return the same mapping for
\* every text and every registry.
C10_ModesIdentical ==
    pc = "return" =>
        counts = count_mentions_in_content(content, target_characters, ~exact_match)

\* C10 as amended: the two modes return the same mapping for every text and
\* every registry none of whose nicknames overlaps itself.
C10_ModesIdenticalWithoutSelfOverlap ==
    (pc = "return" /\ NoSelfOverlap(target_characters)) =>
        counts = count_mentions_in_content(content, target_characters, ~exact_match)

\* two different nicknames, neither overlapping itself, one hit shadowing
\* another, one of them counted twice
C10_Witness ==
    /\ pc = "return"
    /\ NoSelfOverlap(target_characters)
    /\ Cardinality(RegistryPairs(target_characters)) = 2
    /\ Len(non_overlapping) < Len(all_matches)
    /\ \E key \in DOMAIN counts : counts[key] >= 2

-----------------------------------------------------------------------------
(* Properties of identify_staff, checked under SpecStaff *)

\* number of dialogue-form comments of author u among the first n comments
RECURSIVE DialogueFormBy(_, _, _)
DialogueFormBy(cs, n, u) ==
    IF n = 0 THEN 0
    ELSE DialogueFormBy(cs, n - 1, u)
         + (IF cs[n].user_id = u /\ IsDialogueForm(cs[n].content) THEN 1 ELSE 0)

Authors(cs) == {cs[k].user_id : k \in 1..Len(cs)}

\* the authors with strictly more than t dialogue-form comments
MoreThan(cs, t) == {u \in Authors(cs) : DialogueFormBy(cs, Len(cs), u) > t}

\* C11: for every comment sequence, every threshold t and every known_names,
\* the result is exactly the set of authors with strictly more than t
\* dialogue-form comments.
C11_StrictlyMoreThanThreshold ==
    pc = "return" => staff_result = MoreThan(comments, staff_threshold)

\* C11 as amended: the same for every threshold t >= 0.
C11_StrictlyMoreThanNonNegativeThreshold ==
    (pc = "return" /\ staff_threshold >= 0) =>
        staff_result = MoreThan(comments, staff_threshold)

\* one author with exactly t + 1 dialogue-form comments is included, another
\* with exactly t >= 1 is not, and known_names names nobody who speaks
C11_Witness ==
    /\ pc = "return"
    /\ staff_threshold >= 1
    /\ known_names /= <<>>
    /\ \E u, v \in Authors(comments) :
          /\ DialogueFormBy(comments, Len(comments), u) = staff_threshold + 1
          /\ DialogueFormBy(comments, Len(comments), v) = staff_threshold
          /\ u \in staff_result
          /\ v \notin staff_result

-----------------------------------------------------------------------------
(* Properties of _get_lines_for_character, checked under SpecLines *)

\* positions of the candidates whose text starts with "character："
Prefixed(cs, character) ==
    {k \in 1..Len(cs) : StartsWith(cs[k].content, character \o <<FWColon>>)}

\* positions of the candidates whose colour is seen on a prefixed candidate
SameColour(cs, character) ==
    {k \in 1..Len(cs) : \E p \in Prefixed(cs, character) : cs[k].color = cs[p].color}

\* the n-th smallest position of a set of positions
NthOf(positions, n) ==
    CHOOSE k \in positions : Cardinality({j \in positions : j < k}) = n - 1

\* r is the candidates at the given positions, in candidate order
IsSelection(r, cs, positions) ==
    /\ Len(r) = Cardinality(positions)
    /\ \A n \in 1..Len(r) : r[n] = cs[NthOf(positions, n)]

-----------------------------------------------------------------------------
(* Properties of the episode results, checked under Spec *)

\* the streams for which the body reaches per_episode_results.append
IsRecorded(xml_content) ==
    /\ ~Falsy(xml_content)
    /\ ~parse_danmaku_xml(xml_content).raised
    /\ identify_staff(parse_danmaku_xml(xml_content).value,
                      AllCharacterNames(target_characters, main_character),
                      DefaultThreshold) /= {}

\* positions, in the sequence of retrievals, of the recorded episodes
RecordedPositions == {j \in 1..Len(fetched) : IsRecorded(fetched[j])}

\* the stream retrieved for the k-th entry of per_episode_results
StreamOfResult(k) == fetched[NthOf(RecordedPositions, k)]

\* the main-character lines attributed in a stream
MainLinesOf(xml_content) ==
    LET danmaku_list == parse_danmaku_xml(xml_content).value
        staff_ids == identify_staff(danmaku_list,
                         AllCharacterNames(target_characters, main_character),
                         DefaultThreshold)
    IN  _get_lines_for_character(get_dialogues_by_ids(danmaku_list, staff_ids),
                                 main_character)

FirstPosition(l, x) == CHOOSE j \in 1..Len(l) : l[j] = x /\ \A m \in 1..(j - 1) : l[m] /= x

\* C13: in every episode result, detailed_mentions[c][n] has exactly
\* mentions[c][n] records, in the order of the lines they are drawn from, and
\* every record is a main-character line of the stream retrieved for that
\* same episode.
C13_EvidenceMatchesCounts ==
    /\ Len(per_episode_results) = Cardinality(RecordedPositions)
    /\ \A k \in 1..Len(per_episode_results) :
          LET r == per_episode_results[k]
              lines == MainLinesOf(StreamOfResult(k))
          IN  /\ DOMAIN r.detailed_mentions = BagToSet(r.mentions)
              /\ \A key \in DOMAIN r.detailed_mentions :
                    LET records == r.detailed_mentions[key]
                    IN  /\ Len(records) = CopiesIn(key, r.mentions)
                        /\ \A a \in 1..Len(records) : InList(lines, records[a])
                        /\ \A a, b \in 1..Len(records) :
                              a < b => FirstPosition(lines, records[a])
                                           <= FirstPosition(lines, records[b])

\* two recorded episodes with different streams, the second with one line
\* counted twice for one nickname, so that its record is appended twice
C13_Witness ==
    /\ pc = "done"
    /\ Len(per_episode_results) >= 2
    /\ StreamOfResult(1) /= StreamOfResult(2)
    /\ \E key \in DOMAIN per_episode_results[2].detailed_mentions :
          LET records == per_episode_results[2].detailed_mentions[key]
          IN  /\ Len(records) >= 2
              /\ records[1] = records[2]
              /\ ~InList(MainLinesOf(StreamOfResult(1)), records[1])
    /\ \E key \in DOMAIN per_episode_results[1].detailed_mentions :
          LET records == per_episode_results[1].detailed_mentions[key]
          IN  \E a, b \in 1..Len(records) : records[a] /= records[b]

-----------------------------------------------------------------------------
(* Order of processing, checked under Spec *)

\* the "processing" notifications, in the order they were emitted
Started == SelectSeq(progress, LAMBDA m : m.kind = "processing")

\* C15: the episodes are started in input order, one retrieval per started
\* episode and none before the previous episode is resolved, and
\* per_episode_results holds, in input order, one entry for each recorded
\* episode and nothing else.
C15_InputOrderKept ==
    /\ i <= Len(episodes)
    /\ Len(fetched) = (IF pc = "raised" THEN i + 1 ELSE i)
    /\ Len(Started) = Len(fetched)
    /\ \A j \in 1..Len(Started) :
          /\ Started[j].index = j
          /\ Started[j].name = episodes[j].name
          /\ Started[j].id = episodes[j].id
    /\ Len(per_episode_results) = Cardinality(RecordedPositions)
    /\ \A k \in 1..Len(per_episode_results) :
          /\ per_episode_results[k].name = episodes[NthOf(RecordedPositions, k)].name
          /\ per_episode_results[k].id = episodes[NthOf(RecordedPositions, k)].id

\* three episodes, the second skipped, the first and the third different
C15_Witness ==
    /\ pc = "done"
    /\ Len(episodes) = 3
    /\ RecordedPositions = {1, 3}
    /\ episodes[1] /= episodes[3]
    /\ Len(per_episode_results) = 2
    /\ per_episode_results[2].id = episodes[3].id

-----------------------------------------------------------------------------
(* Episodes in which classification yields nothing, checked under Spec *)

\* the stream parses and no author has more than DefaultThreshold
\* dialogue-form comments
NoStaffIdentified(xml_content) ==
    /\ ~Falsy(xml_content)
    /\ ~parse_danmaku_xml(xml_content).raised
    /\ MoreThan(parse_danmaku_xml(xml_content).value, DefaultThreshold) = {}

\* staff is identified and none of its comments starts with "main_character："
ZeroLines(xml_content) ==
    /\ ~Falsy(xml_content)
    /\ ~parse_danmaku_xml(xml_content).raised
    /\ LET cs == parse_danmaku_xml(xml_content).value
           staff == MoreThan(cs, DefaultThreshold)
       IN  /\ staff /= {}
           /\ \A k \in 1..Len(cs) :
                 cs[k].user_id \in staff =>
                     ~StartsWith(cs[k].content, main_character \o <<FWColon>>)

\* the step resolves one episode, whose stream is the last one retrieved
Resolves(xml_content) ==
    /\ fetched' = Append(fetched, xml_content)
    /\ pc' /= "raised"

\* an entry with zero lines and zero counts is appended for episode i + 1
RecordsZero ==
    /\ Len(per_episode_results') = Len(per_episode_results) + 1
    /\ SubSeq(per_episode_results', 1, Len(per_episode_results)) = per_episode_results
    /\ LET r == per_episode_results'[Len(per_episode_results')]
       IN  /\ r.name = episodes[i + 1].name
           /\ r.id = episodes[i + 1].id
           /\ r.main_char_lines = 0
           /\ r.mentions = EmptyBag
           /\ DOMAIN r.detailed_mentions = {}

\* C16: an episode with no staff identified, or with zero main-character
\* lines, is recorded with zero counts, is not reported as skipped, and adds
\* nothing to total_mentions.
C16_NothingIsRecordedAsZero ==
    [][\A xml_content \in FetchOutcomes :
          (Resolves(xml_content) /\ (NoStaffIdentified(xml_content) \/ ZeroLines(xml_content))) =>
              /\ RecordsZero
              /\ progress' = Append(progress, ProcessingMsg)
              /\ total_mention_counts' = total_mention_counts]_vars

\* C16 as amended: an episode with zero main-character lines is recorded with
\* zero counts and no outcome notification; an episode with no staff
\* identified is skipped with the no-staff notification and is not recorded;
\* neither adds anything to total_mentions.
C16_ZeroLinesRecordedNoStaffSkipped ==
    [][\A xml_content \in FetchOutcomes :
          /\ (Resolves(xml_content) /\ ZeroLines(xml_content)) =>
                /\ RecordsZero
                /\ progress' = Append(progress, ProcessingMsg)
                /\ total_mention_counts' = total_mention_counts
          /\ (Resolves(xml_content) /\ NoStaffIdentified(xml_content)) =>
                /\ per_episode_results' = per_episode_results
                /\ progress' = progress \o <<ProcessingMsg, NoStaffMsg>>
                /\ total_mention_counts' = total_mention_counts]_vars

\* a run with one episode of each kind: only the zero-line one is recorded
C16_Witness ==
    /\ pc = "done"
    /\ Len(fetched) = 2
    /\ NoStaffIdentified(fetched[1])
    /\ parse_danmaku_xml(fetched[1]).value /= <<>>
    /\ ZeroLines(fetched[2])
    /\ Len(per_episode_results) = 1
    /\ per_episode_results[1].main_char_lines = 0
    /\ per_episode_results[1].mentions = EmptyBag
    /\ progress[2] = NoStaffMsg
    /\ total_mention_counts = EmptyBag

-----------------------------------------------------------------------------
(* Properties of format_time, checked under SpecTime *)

\* the value of a digit character, -1 for any other character
ValueOfDigit(c) ==
    IF \E d \in 1..10 : DecimalDigit[d] = c
    THEN (CHOOSE d \in 1..10 : DecimalDigit[d] = c) - 1
    ELSE 0 - 1

IsField(f) == f /= <<>> /\ \A k \in 1..Len(f) : ValueOfDigit(f[k]) >= 0

\* the number a sequence of digits reads as
RECURSIVE ValueOfField(_)
ValueOfField(f) ==
    IF f = <<>> THEN 0
    ELSE 10 * ValueOfField(SubSeq(f, 1, Len(f) - 1)) + ValueOfDigit(f[Len(f)])

MinutesField(t) == SubSeq(t, 1, Len(t) - 3)
SecondsField(t) == SubSeq(t, Len(t) - 1, Len(t))

\* t is MM:SS for s, whatever the width of MM
Renders(t, s) ==
    /\ Len(t) >= 4
    /\ t[Len(t) - 2] = ":"
    /\ IsField(MinutesField(t))
    /\ IsField(SecondsField(t))
    /\ ValueOfField(MinutesField(t)) = s \div 60
    /\ ValueOfField(SecondsField(t)) = s % 60

\* C17: every non-negative whole number of seconds renders as MM:SS with both
\* fields exactly two digits wide, MM the floor of s / 60 and SS s modulo 60;
\* an input that is not a number renders as "00:00".
C17_TwoDigitFields ==
    pc = "return" =>
        IF seconds.type \in {"int", "float"}
        THEN Renders(formatted, seconds.value) /\ Len(formatted) = 5
        ELSE formatted = <<"0", "0", ":", "0", "0">>

\* C17 as amended: SS is exactly two digits wide; MM is exactly two digits
\* wide when s < 6000 and is the decimal numeral of the floor of s / 60,
\* three digits or more, from 6000 on.
C17_MinutesAtLeastTwoDigits ==
    pc = "return" =>
        IF seconds.type \in {"int", "float"}
        THEN /\ Renders(formatted, seconds.value)
             /\ seconds.value < 6000 => Len(formatted) = 5
             /\ seconds.value >= 6000 =>
                   /\ Len(formatted) > 5
                   /\ formatted[1] /= "0"
        ELSE formatted = <<"0", "0", ":", "0", "0">>

\* 6005 seconds render as 100:05
C17_Witness ==
    /\ pc = "return"
    /\ seconds = [type |-> "int", value |-> 6005]
    /\ formatted = <<"1", "0", "0", ":", "0", "5">>

-----------------------------------------------------------------------------
(* Retrieval results without content, checked under Spec *)

\* the episode is skipped through the no-staff path
SkippedAsNoStaff ==
    /\ progress' = progress \o <<ProcessingMsg, NoStaffMsg>>
    /\ per_episode_results' = per_episode_results
    /\ total_mention_counts' = total_mention_counts

\* the episode is skipped as a retrieval failure
SkippedAsFetchFailed ==
    /\ progress' = progress \o <<ProcessingMsg, FetchFailedMsg>>
    /\ per_episode_results' = per_episode_results
    /\ total_mention_counts' = total_mention_counts

\* C18: only an absent retrieval result is reported as a retrieval failure;
\* present but empty content is not, and its episode is skipped through the
\* no-staff path.
C18_OnlyAbsentIsFailure ==
    [][/\ Resolves(NoneXml) => SkippedAsFetchFailed
       /\ Resolves(EmptyXml) => SkippedAsNoStaff]_vars

\* C18 as amended: an absent result and present but empty content are both
\* reported as a retrieval failure; content that is not empty and cannot be
\* parsed is skipped through the no-staff path.
C18_AbsentOrEmptyIsFailure ==
    [][/\ Resolves(NoneXml) => SkippedAsFetchFailed
       /\ Resolves(EmptyXml) => SkippedAsFetchFailed
       /\ Resolves(BrokenXml) => SkippedAsNoStaff]_vars

\* a run whose first retrieval is empty and whose second cannot be parsed
C18_Witness ==
    /\ pc = "done"
    /\ fetched = <<EmptyXml, BrokenXml>>
    /\ Len(progress) = 4
    /\ progress[2] = FetchFailedMsg
    /\ progress[4] = NoStaffMsg
    /\ per_episode_results = <<>>

-----------------------------------------------------------------------------
(* Notifications, checked under Spec *)

\* the notification that opens episode j, numbered from 1
Opening(j) ==
    [kind |-> "processing", index |-> j, total |-> Len(episodes),
     name |-> episodes[j].name, id |-> episodes[j].id]

IsOutcome(m) == m.kind \in {"fetch_failed", "no_staff", "accumulated"}

\* C19: every episode, in input order, emits its opening notification and
\* then a notification of its outcome, whether skipped or accumulated, before
\* the next episode emits anything.
C19_OpeningAndOutcomeForEach ==
    pc = "done" =>
        /\ Len(progress) = 2 * Len(episodes)
        /\ \A j \in 1..Len(episodes) :
              /\ progress[2 * j - 1] = Opening(j)
              /\ IsOutcome(progress[2 * j])

\* what the j-th episode emits after its opening notification
OutcomeOf(j) ==
    IF fetched[j] \in {NoneXml, EmptyXml} THEN <<FetchFailedMsg>>
    ELSE IF NoStaffIdentified(fetched[j]) THEN <<NoStaffMsg>>
    ELSE <<>>

\* the notifications of the first n episodes
RECURSIVE NotificationsUpTo(_)
NotificationsUpTo(n) ==
    IF n = 0 THEN <<>>
    ELSE NotificationsUpTo(n - 1) \o <<Opening(n)>> \o OutcomeOf(n)

\* C19 as amended: every episode, in input order, emits its opening
\* notification; a skipped episode then emits the notification of its skip,
\* an accumulated episode emits nothing more; all of this before the next
\* episode emits anything.
C19_OpeningForEachOutcomeForSkipped ==
    progress = (IF pc = "raised"
                THEN NotificationsUpTo(i) \o <<Opening(i + 1)>>
                ELSE NotificationsUpTo(i))

\* a finished run with an accumulated episode between two skipped ones
C19_Witness ==
    /\ pc = "done"
    /\ Len(episodes) = 3
    /\ progress = <<Opening(1), FetchFailedMsg, Opening(2), Opening(3), NoStaffMsg>>
    /\ Len(per_episode_results) = 1
    /\ per_episode_results[1].mentions /= EmptyBag

-----------------------------------------------------------------------------
(* The unbalanced multi-speaker lines, checked under SpecSpeech *)

\* s[a:b] is one of the pieces of s[lo:hi] between sentence terminators
IsSegment(s, lo, hi, a, b) ==
    /\ lo <= a /\ a <= b /\ b <= hi
    /\ a = lo \/ s[a] \in Terminators
    /\ b = hi \/ s[b + 1] \in Terminators
    /\ \A j \in (a + 1)..b : s[j] \notin Terminators

\* the segments of the speech part that contain the name, as <<a, b>> bounds
NamedSegments(s, name) ==
    {ab \in (FirstColon(s) + 1..Len(s)) \X (FirstColon(s) + 1..Len(s)) :
        /\ IsSegment(s, FirstColon(s) + 1, Len(s), ab[1], ab[2])
        /\ Occurs(Slice(s, ab[1], ab[2]), name)}

\* a multi-speaker line of the character whose speech part has not as many
\* slash-separated pieces as there are roles
IsUnbalancedFor(s, name) ==
    /\ ~Occurs(s, name \o <<FWColon>>)
    /\ Occurs(s, <<Slash>>)
    /\ Occurs(s, <<FWColon>>)
    /\ IsRole(s, name)
    /\ Cardinality(Pieces(s, FirstColon(s) + 1, Len(s)))
           /= Cardinality(Pieces(s, 0, FirstColon(s)))

\* C20: for an unbalanced multi-speaker line of the character, the result is
\* the first terminator-separated segment of the speech part that contains
\* the character's name, trimmed, and the whole speech part, trimmed, when no
\* segment contains it.
C20_FirstNamedSegment ==
    (pc = "next_line" /\ IsUnbalancedFor(content, main_character)) =>
        LET named == NamedSegments(content, main_character)
            first == CHOOSE ab \in named : \A cd \in named : ab[1] <= cd[1]
        IN  IF named /= {}
            THEN actual_content = Strip(Slice(content, first[1], first[2]))
            ELSE actual_content = Strip(Slice(content, FirstColon(content) + 1, Len(content)))

\* the name is in the second segment only: that segment is returned, not
\* the first one and not the whole speech part
C20_Witness ==
    /\ pc = "next_line"
    /\ IsUnbalancedFor(content, main_character)
    /\ Cardinality(NamedSegments(content, main_character)) = 1
    /\ \E ab \in NamedSegments(content, main_character) :
          /\ ab[1] > FirstColon(content) + 1
          /\ actual_content = Strip(Slice(content, ab[1], ab[2]))
    /\ actual_content /= Strip(Slice(content, FirstColon(content) + 1, Len(content)))

-----------------------------------------------------------------------------
(* Emptiness of the result of _get_lines_for_character, checked under       *)
(* SpecLines                                                                *)

\* the text begins with the characters of name followed by the colon
BeginsWithName(text, name) ==
    /\ Len(text) > Len(name)
    /\ \A k \in 1..Len(name) : text[k] = name[k]
    /\ text[Len(name) + 1] = FWColon

-----------------------------------------------------------------------------
(* main_char_lines of the episode results, checked under Spec *)

\* positions, in the parsed stream, of the comments attributed to the main
\* character: written by staff, in a colour that staff uses on a comment
\* starting with "main_character："
AttributedPositions(xml_content) ==
    LET cs == parse_danmaku_xml(xml_content).value
        staff == MoreThan(cs, DefaultThreshold)
        named == {p \in 1..Len(cs) :
                     /\ cs[p].user_id \in staff
                     /\ BeginsWithName(cs[p].content, main_character)}
    IN  {k \in 1..Len(cs) :
            /\ cs[k].user_id \in staff
            /\ \E p \in named : cs[p].color = cs[k].color}

\* the distinct records of an episode's detailed_mentions
EvidenceRecords(r) ==
    UNION {{r.detailed_mentions[key][a] : a \in 1..Len(r.detailed_mentions[key])} :
              key \in DOMAIN r.detailed_mentions}

\* C22: in every episode result, main_char_lines is the number of lines
\* attributed to the main character in that episode, the lines without
\* speech of the character and the lines without mention included, and the
\* distinct records of detailed_mentions are not more than that.
C22_MainCharLinesCountsAllLines ==
    \A k \in 1..Len(per_episode_results) :
        /\ per_episode_results[k].main_char_lines
               = Cardinality(AttributedPositions(StreamOfResult(k)))
        /\ Cardinality(EvidenceRecords(per_episode_results[k]))
               <= per_episode_results[k].main_char_lines

\* an episode with a line that is not speech of the main character and a
\* line of the main character without mention: more lines than records
C22_Witness ==
    /\ pc = "done"
    /\ \E k \in 1..Len(per_episode_results) :
          LET r == per_episode_results[k]
              lines == MainLinesOf(StreamOfResult(k))
          IN  /\ \E n \in 1..Len(lines) :
                    extract_mainchar_speech(lines[n].content, main_character) = None
              /\ \E n \in 1..Len(lines) :
                    /\ BeginsWithName(lines[n].content, main_character)
                    /\ lines[n] \notin EvidenceRecords(r)
              /\ EvidenceRecords(r) /= {}
              /\ Cardinality(EvidenceRecords(r)) + 2 = r.main_char_lines

====
